---- MODULE Spec2Model ----
(***************************************************************************)
(* Iftar countdown display (src/src/App.tsx).                              *)
(*                                                                         *)
(* Time is in milliseconds, as in the source, counted from                 *)
(* 2026-02-15T00:00:00Z instead of 1970-01-01T00:00:00Z so that every      *)
(* instant of the modelled days fits a 32-bit integer.  Strings that the   *)
(* code parses (the HH:MM values) are sequences of one-character strings.  *)
(* A JavaScript number is a record [nan, v]: NaN is [nan |-> TRUE].        *)
(***************************************************************************)
EXTENDS Integers, Sequences, FiniteSets, TLC

VARIABLES
    clock,        \* the wall clock, what Date.now() returns when read
    tz,           \* the machine's time zone offset (ms), used by new Date(y, m, d)
    nowUtcMs,     \* useState: the displayed now
    divisions,    \* useState: the schedule
    loading,      \* useState: the loading flag
    fetch,        \* position of fetchDivisions: "none", "pending", "done"
    resp,         \* the settled outcome of the remote read (a record), or NoResp
    setLoadingCalls, \* how many times setLoading(false) has been called
    mounted,      \* the display is up (the effect's cleanup has not run)
    effectRan,    \* the mount effect has run
    timerActive,  \* the setInterval handle is live
    timerDue,     \* earliest instant of the timer's next callback
    ticks,        \* how many times the timer's callback has run
    pc,           \* position of the synchronous render pass
    idx,          \* index of the division the render pass is at
    allIftars,    \* ramadanDate memo: the targets mapped so far in this pass
    maxIftarMs,   \* ramadanDate memo: Math.max(...allIftars) of its last run
    ramadanDate,  \* the memoised Ramadan day label: <<day>> or <<>> for null
    cur,          \* CountdownCard in progress: targetTodayUtc after the first call
    card,         \* the locals of the CountdownCard call that completed last
    shown,        \* per rendered division: the state on display and its now
    fn            \* the last direct application of a time-engine function

vars == <<clock, tz, nowUtcMs, divisions, loading, fetch, resp, setLoadingCalls,
          mounted, effectRan, timerActive, timerDue, ticks, pc, idx, allIftars,
          maxIftarMs, ramadanDate, cur, card, shown, fn>>

progVarsButFn == <<tz, nowUtcMs, divisions, loading, fetch, resp, setLoadingCalls,
                   mounted, effectRan, timerActive, timerDue, ticks, pc, idx, allIftars,
                   maxIftarMs, ramadanDate, cur, card, shown>>

\* everything but the wall clock
progVars == <<tz, nowUtcMs, divisions, loading, fetch, resp, setLoadingCalls,
              mounted, effectRan, timerActive, timerDue, ticks, pc, idx, allIftars,
              maxIftarMs, ramadanDate, cur, card, shown, fn>>

----------------------------------------------------------------------------
(* Bounds of the model *)

\* number of consecutive local (Bangladesh) calendar days the wall clock spans
MaxDays == 2

\* number of callbacks of the periodic timer that are followed
MaxTicks == 2

\* largest day offset passed to getTargetUtcMs when it is applied directly
MaxAddDays == 2

----------------------------------------------------------------------------
(* Constants of the program *)

SECOND_MS == 1000
MINUTE_MS == 60 * 1000
HOUR_MS == 60 * 60 * 1000
DAY_MS == 24 * 60 * 60 * 1000
BD_OFFSET_MS == 6 * 60 * 60 * 1000
TICK_MS == 1000

FALLBACK_DIVISIONS ==
    << [name |-> "Dhaka",      iftar |-> <<"1","8",":","0","0">>],
       [name |-> "Chattogram", iftar |-> <<"1","7",":","5","5">>],
       [name |-> "Rajshahi",   iftar |-> <<"1","8",":","0","5">>],
       [name |-> "Khulna",     iftar |-> <<"1","8",":","0","4">>],
       [name |-> "Barishal",   iftar |-> <<"1","8",":","0","1">>],
       [name |-> "Sylhet",     iftar |-> <<"1","7",":","5","3">>],
       [name |-> "Rangpur",    iftar |-> <<"1","8",":","0","3">>],
       [name |-> "Mymensingh", iftar |-> <<"1","7",":","5","9">>] >>

----------------------------------------------------------------------------
(* JavaScript numbers *)

NaN == [nan |-> TRUE, v |-> 0]
Num(n) == [nan |-> FALSE, v |-> n]

\* a >= b on numbers: false when either side is NaN
Ge(a, b) == ~a.nan /\ ~b.nan /\ a.v >= b.v

IsNegative(a) == ~a.nan /\ a.v < 0

\* Math.max(...list) of a non-empty list: NaN when any element is NaN
MathMax(list) ==
    IF \E k \in 1..Len(list) : list[k].nan THEN NaN
    ELSE Num(CHOOSE v \in { list[k].v : k \in 1..Len(list) } :
                 \A k \in 1..Len(list) : v >= list[k].v)

----------------------------------------------------------------------------
(* Calendar of the year 2026, in days; Date.UTC and the getUTC* fields *)

DaysBeforeMonth == <<0, 31, 59, 90, 120, 151, 181, 212, 243, 273, 304, 334, 365>>

\* day of the year 2026 (1-based) of the origin of the model's time axis, 15 Feb
EpochDayOfYear == 31 + 15

\* Date.UTC(y, m, d, 0, 0, 0) for y = 2026, m zero-based
DateUTC(y, m, d) == (DaysBeforeMonth[m + 1] + d - EpochDayOfYear) * DAY_MS

\* new Date(y, m, d).getTime(): midnight in the machine's time zone
LocalDate(zone, y, m, d) == DateUTC(y, m, d) - zone

getBdDateParts(date) ==
    LET days == date \div DAY_MS
        doy  == days + EpochDayOfYear
        mon  == CHOOSE k \in 0..11 :
                   DaysBeforeMonth[k + 1] < doy /\ doy <= DaysBeforeMonth[k + 2]
        rest == date % DAY_MS
    IN [y  |-> 2026,
        m  |-> mon,
        d  |-> doy - DaysBeforeMonth[mon + 1],
        hh |-> rest \div HOUR_MS,
        mm |-> (rest % HOUR_MS) \div MINUTE_MS,
        ss |-> (rest % MINUTE_MS) \div SECOND_MS]

\* getBdNow(): the wall clock read `wall`, shifted by the fixed offset
getBdNow(wall) == wall + BD_OFFSET_MS

----------------------------------------------------------------------------
(* String parsing: iftarHHMM.split(":").map(Number) *)

Digits == <<"0", "1", "2", "3", "4", "5", "6", "7", "8", "9">>

IsDigit(c) == \E k \in 1..10 : Digits[k] = c

DigitValue(c) == (CHOOSE k \in 1..10 : Digits[k] = c) - 1

\* the parts of s from position i on, cut at every occurrence of sep
RECURSIVE SplitFrom(_, _, _)
SplitFrom(s, sep, i) ==
    IF \A k \in i..Len(s) : s[k] # sep THEN <<SubSeq(s, i, Len(s))>>
    ELSE LET p == CHOOSE k \in i..Len(s) :
                      s[k] = sep /\ \A j \in i..(k - 1) : s[j] # sep
         IN <<SubSeq(s, i, p - 1)>> \o SplitFrom(s, sep, p + 1)

\* String.prototype.split(sep) for a one-character separator
Split(s, sep) == SplitFrom(s, sep, 1)

\* the decimal value of the first n characters of a run of digits
RECURSIVE DecimalPrefix(_, _)
DecimalPrefix(s, n) ==
    IF n = 0 THEN 0 ELSE 10 * DecimalPrefix(s, n - 1) + DigitValue(s[n])

Decimal(s) == DecimalPrefix(s, Len(s))

\* Number(s) over the alphabet of digits, ":" and letters: "" is 0, a run of
\* digits its decimal value, anything else NaN
Number(s) == IF \A k \in 1..Len(s) : IsDigit(s[k]) THEN Num(Decimal(s)) ELSE NaN

\* const [H, M] = parts: a missing element is undefined, NaN in arithmetic
Destructure(parts, k) == IF k <= Len(parts) THEN Number(parts[k]) ELSE NaN

----------------------------------------------------------------------------
(* Time engine *)

\* variant: the day offset is left out of the sum
getTargetUtcMsNoAddDays(wall, iftarHHMM, addDays) ==
    LET p == getBdDateParts(getBdNow(wall))
        parts == Split(iftarHHMM, ":")
        H == Destructure(parts, 1)
        M == Destructure(parts, 2)
        bdMidnightUtcMs == DateUTC(p.y, p.m, p.d) - BD_OFFSET_MS
    IN IF H.nan \/ M.nan THEN NaN
       ELSE Num(bdMidnightUtcMs + (H.v * HOUR_MS) + (M.v * MINUTE_MS))

getTargetUtcMs(wall, iftarHHMM, addDays) ==
    LET p == getBdDateParts(getBdNow(wall))
        parts == Split(iftarHHMM, ":")
        H == Destructure(parts, 1)
        M == Destructure(parts, 2)
        baseUtcMsForBdMidnight == DateUTC(p.y, p.m, p.d)
        bdMidnightUtcMs == baseUtcMsForBdMidnight - BD_OFFSET_MS
    IN IF H.nan \/ M.nan THEN NaN
       ELSE Num(bdMidnightUtcMs + (addDays * DAY_MS) + (H.v * HOUR_MS) + (M.v * MINUTE_MS))

\* variant: the boundary instant itself counts as pending
isAfterIftarStrict(now, targetTodayUtc) == ~targetTodayUtc.nan /\ now > targetTodayUtc.v

\* const isAfterIftar = nowUtcMs >= targetTodayUtc
isAfterIftar(now, targetTodayUtc) == Ge(Num(now), targetTodayUtc)

\* variant: the difference is not clamped at zero
RemainingUnclamped(targetUtc, now) ==
    IF targetUtc.nan THEN [h |-> NaN, m |-> NaN, s |-> NaN]
    ELSE LET diffMs == targetUtc.v - now
             totalSeconds == diffMs \div 1000
         IN [h |-> Num(totalSeconds \div 3600),
             m |-> Num((totalSeconds % 3600) \div 60),
             s |-> Num(totalSeconds % 60)]

\* diffMs, totalSeconds, h, m, s of CountdownCard
Remaining(targetUtc, now) ==
    IF targetUtc.nan THEN [h |-> NaN, m |-> NaN, s |-> NaN]
    ELSE LET d == targetUtc.v - now
             diffMs == IF d > 0 THEN d ELSE 0
             totalSeconds == diffMs \div 1000
         IN [h |-> Num(totalSeconds \div 3600),
             m |-> Num((totalSeconds % 3600) \div 60),
             s |-> Num(totalSeconds % 60)]

\* variant: the day does not roll over after the last iftar
RamadanDateNoRollover(zone, p, now, maxMs) ==
    LET start == LocalDate(zone, 2026, 1, 19)
        today == LocalDate(zone, p.y, p.m, p.d)
        diffDays == ((today - start) \div DAY_MS) + 1
    IN IF diffDays >= 1 /\ diffDays <= 30 THEN <<diffDays>> ELSE <<>>

\* the useMemo body of ramadanDate, given the maximum of the mapped targets
RamadanDate(zone, p, now, maxMs) ==
    LET start == LocalDate(zone, 2026, 1, 19)
        today == LocalDate(zone, p.y, p.m, p.d)
        diffDays == ((today - start) \div DAY_MS) + 1
        day == IF Ge(Num(now), maxMs) THEN diffDays + 1 ELSE diffDays
    IN IF day >= 1 /\ day <= 30 THEN <<day>> ELSE <<>>

----------------------------------------------------------------------------
(* Inputs: instants of the wall clock, time zones, outcomes of the remote read *)

\* local (Bangladesh) calendar day, counted from the origin of the time axis,
\* of the first modelled day: 5 days after the Ramadan start date
FirstDay == (DateUTC(2026, 1, 19) \div DAY_MS) + 5

HMS(h, m, s, ms) == h * HOUR_MS + m * MINUTE_MS + s * SECOND_MS + ms

\* offsets into a local day: midnight, half a second before 18:00, 18:00, the
\* last millisecond
DayOffsets == { HMS(0, 0, 0, 0), HMS(17, 59, 59, 500),
                HMS(18, 0, 0, 0), HMS(23, 59, 59, 999) }

\* the absolute instant of local midnight of local day d
BdMidnight(d) == d * DAY_MS - BD_OFFSET_MS

Instants == { BdMidnight(d) + o : d \in FirstDay..(FirstDay + MaxDays - 1), o \in DayOffsets }

\* the local calendar day (counted from the origin) of an absolute instant
BdDay(t) == getBdNow(t) \div DAY_MS

Zones == { 0, BD_OFFSET_MS }

ThreeRows == << [name |-> "A", iftar |-> <<"1","8",":","0","0">>],
                [name |-> "B", iftar |-> <<"1","7",":","5","3">>],
                [name |-> "C", iftar |-> <<"1","8",":","0","5">>] >>

\* a row whose iftar is not numeric, after a good one
MixedRows == << [name |-> "A", iftar |-> <<"1","8",":","0","0">>],
                [name |-> "X", iftar |-> <<"1","a",":","0","0">>] >>

\* a row whose iftar has no colon
BadRows == << [name |-> "Y", iftar |-> <<"1","8","0","0">>] >>

\* what the awaited query can settle to: a rejection, {data: null, error},
\* {data: null, error: null}, or {data: rows, error: null}
Responses ==
    { [kind |-> "reject", data |-> <<>>],
      [kind |-> "error",  data |-> <<>>],
      [kind |-> "null",   data |-> <<>>] }
    \cup { [kind |-> "ok", data |-> d] : d \in { <<>>, ThreeRows, MixedRows, BadRows } }

NoResp == [kind |-> "none", data |-> <<>>]

NoFn == [op |-> "none"]

NoCur == [targetTodayUtc |-> NaN]

NoCard == [name |-> "", now |-> 0, targetTodayUtc |-> NaN, isAfterIftar |-> FALSE,
           targetUtc |-> NaN, h |-> NaN, m |-> NaN, s |-> NaN, calls |-> 0]

----------------------------------------------------------------------------
(* Well-formedness of rows, as the data model states it *)

WellFormed(row) ==
    LET parts == Split(row.iftar, ":")
    IN /\ Len(parts) = 2
       /\ Len(parts[1]) = 2 /\ Len(parts[2]) = 2
       /\ \A k \in 1..2 : \A j \in 1..2 : IsDigit(parts[k][j])
       /\ Decimal(parts[1]) <= 23 /\ Decimal(parts[2]) <= 59

----------------------------------------------------------------------------
(* The application *)

Init ==
    /\ clock \in Instants
    /\ tz \in Zones
    /\ nowUtcMs = clock
    /\ divisions = FALLBACK_DIVISIONS
    /\ loading = TRUE
    /\ fetch = "none"
    /\ resp = NoResp
    /\ setLoadingCalls = 0
    /\ mounted = TRUE
    /\ effectRan = FALSE
    /\ timerActive = FALSE
    /\ timerDue = 0
    /\ ticks = 0
    /\ pc = "memo"
    /\ idx = 1
    /\ allIftars = <<>>
    /\ maxIftarMs = NaN
    /\ ramadanDate = <<>>
    /\ cur = NoCur
    /\ card = NoCard
    /\ shown = <<>>
    /\ fn = NoFn

\* the wall clock moves on; it may do so between any two steps of the program
AdvanceClock ==
    /\ \E t \in Instants : t > clock /\ clock' = t
    /\ UNCHANGED progVars

\* the cards rendered: divisions.slice(0, 6) and divisions.slice(6, 8)
DisplayCount(divs) == IF Len(divs) < 8 THEN Len(divs) ELSE 8

\* one call of the map in the ramadanDate memo; the last one ends the memo
MemoCall ==
    /\ pc = "memo"
    /\ \E t \in {getTargetUtcMs(clock, divisions[idx].iftar, 0)} :
       LET list == Append(allIftars, t)
       IN IF idx = Len(divisions)
          THEN /\ maxIftarMs' = MathMax(list)
               /\ ramadanDate' = RamadanDate(tz, getBdDateParts(nowUtcMs + BD_OFFSET_MS),
                                             nowUtcMs, MathMax(list))
               /\ allIftars' = <<>>
               /\ pc' = "cardToday"
               /\ idx' = 1
          ELSE /\ allIftars' = list
               /\ idx' = idx + 1
               /\ UNCHANGED <<maxIftarMs, ramadanDate, pc>>
    /\ UNCHANGED <<clock, tz, nowUtcMs, divisions, loading, fetch, resp, setLoadingCalls,
                   mounted, effectRan, timerActive, timerDue, ticks, cur, card, shown, fn>>

\* the locals of CountdownCard for division i, once its target is chosen
Card(i, targetTodayUtc, after, targetUtc, calls) ==
    LET r == Remaining(targetUtc, nowUtcMs)
    IN [name |-> divisions[i].name, now |-> nowUtcMs,
        targetTodayUtc |-> targetTodayUtc, isAfterIftar |-> after,
        targetUtc |-> targetUtc, h |-> r.h, m |-> r.m, s |-> r.s, calls |-> calls]

FinishCard(c) ==
    /\ card' = c
    /\ shown' = LET e == [isAfterIftar |-> c.isAfterIftar, now |-> c.now]
                IN IF idx <= Len(shown) THEN [shown EXCEPT ![idx] = e]
                   ELSE Append(shown, e)
    /\ cur' = NoCur
    /\ IF idx = DisplayCount(divisions)
       THEN pc' = "idle" /\ idx' = 1
       ELSE pc' = "cardToday" /\ idx' = idx + 1

\* CountdownCard up to the choice of the target: the first clock read
CardToday ==
    /\ pc = "cardToday"
    /\ \E targetTodayUtc \in {getTargetUtcMs(clock, divisions[idx].iftar, 0)} :
       LET after == isAfterIftar(nowUtcMs, targetTodayUtc)
       IN IF after
          THEN /\ cur' = [targetTodayUtc |-> targetTodayUtc]
               /\ pc' = "cardTomorrow"
               /\ UNCHANGED <<idx, card, shown>>
          ELSE FinishCard(Card(idx, targetTodayUtc, FALSE, targetTodayUtc, 1))
    /\ UNCHANGED <<clock, tz, nowUtcMs, divisions, loading, fetch, resp, setLoadingCalls,
                   mounted, effectRan, timerActive, timerDue, ticks, allIftars,
                   maxIftarMs, ramadanDate, fn>>

\* CountdownCard after the region is found elapsed: the second clock read
CardTomorrow ==
    /\ pc = "cardTomorrow"
    /\ \E targetUtc \in {getTargetUtcMs(clock, divisions[idx].iftar, 1)} :
          FinishCard(Card(idx, cur.targetTodayUtc, TRUE, targetUtc, 2))
    /\ UNCHANGED <<clock, tz, nowUtcMs, divisions, loading, fetch, resp, setLoadingCalls,
                   mounted, effectRan, timerActive, timerDue, ticks, allIftars,
                   maxIftarMs, ramadanDate, fn>>

\* the mount effect: starts the one remote read and the periodic timer
Mount ==
    /\ pc = "idle" /\ mounted /\ ~effectRan
    /\ effectRan' = TRUE
    /\ fetch' = "pending"
    /\ timerActive' = TRUE
    /\ timerDue' = clock + TICK_MS
    /\ UNCHANGED <<clock, tz, nowUtcMs, divisions, loading, resp, setLoadingCalls,
                   mounted, ticks, pc, idx, allIftars, maxIftarMs, ramadanDate,
                   cur, card, shown, fn>>

\* variant: the remote rows are put in front of the current schedule
FetchTryMerge(r, divs) ==
    IF r.kind = "ok" /\ Len(r.data) > 0 THEN r.data \o divs ELSE divs

\* the try block of fetchDivisions: the schedule after the read settled to r
FetchTry(r, divs) ==
    IF r.kind = "ok" /\ Len(r.data) > 0 THEN r.data ELSE divs

\* variant: the flag is left as it is
FetchFinallyKeep(l) == l

\* the finally block of fetchDivisions: setLoading(false)
FetchFinally(l) == FALSE

\* the awaited read settles; try, catch and finally run to the end
FetchSettle ==
    /\ fetch = "pending" /\ pc = "idle"
    /\ \E r \in Responses :
          /\ resp' = r
          /\ divisions' = FetchTry(r, divisions)
    /\ loading' = FetchFinally(loading)
    /\ setLoadingCalls' = setLoadingCalls + 1
    /\ fetch' = "done"
    /\ IF mounted
       THEN IF divisions' # divisions
            THEN pc' = "memo" /\ shown' = <<>>
            ELSE pc' = "cardToday" /\ UNCHANGED shown
       ELSE UNCHANGED <<pc, shown>>
    /\ UNCHANGED <<clock, tz, nowUtcMs, mounted, effectRan, timerActive, timerDue,
                   ticks, idx, allIftars, maxIftarMs, ramadanDate, cur, card, fn>>

\* the setInterval callback: setNowUtcMs(Date.now())
Tick ==
    /\ timerActive /\ pc = "idle" /\ clock >= timerDue
    /\ ticks < MaxTicks
    /\ ticks' = ticks + 1
    /\ nowUtcMs' = clock
    /\ timerDue' = clock + TICK_MS
    /\ pc' = "memo"
    /\ UNCHANGED <<clock, tz, divisions, loading, fetch, resp, setLoadingCalls,
                   mounted, effectRan, timerActive, idx, allIftars, maxIftarMs,
                   ramadanDate, cur, card, shown, fn>>

\* variant: the handle is not released
clearIntervalLeak(active) == active

\* clearInterval(timer)
clearInterval(active) == FALSE

\* the effect's cleanup, when the display is torn down
Teardown ==
    /\ mounted /\ effectRan /\ pc = "idle"
    /\ mounted' = FALSE
    /\ timerActive' = clearInterval(timerActive)
    /\ UNCHANGED <<clock, tz, nowUtcMs, divisions, loading, fetch, resp, setLoadingCalls,
                   effectRan, timerDue, ticks, pc, idx, allIftars, maxIftarMs,
                   ramadanDate, cur, card, shown, fn>>

Next ==
    \/ AdvanceClock
    \/ MemoCall
    \/ CardToday
    \/ CardTomorrow
    \/ Mount
    \/ FetchSettle
    \/ Tick
    \/ Teardown

Spec == Init /\ [][Next]_vars

\* The display is started on the last modelled day.
LateInit == Init /\ BdDay(clock) = FirstDay + MaxDays - 1

\* The render pass is synchronous and runs to its end, the effect runs after the
\* first commit, and the awaited read settles.
Fairness ==
    /\ WF_vars(MemoCall) /\ WF_vars(CardToday) /\ WF_vars(CardTomorrow)
    /\ WF_vars(Mount)
    /\ WF_vars(FetchSettle)

FairSpec == LateInit /\ [][Next]_vars /\ Fairness

----------------------------------------------------------------------------
(* Direct application of the time-engine functions to drawn inputs *)

ValidTimes == { <<"0","0",":","0","0">>, <<"1","7",":","5","3">>,
                <<"1","8",":","0","0">>, <<"2","3",":","5","9">> }

\* getTargetUtcMs at one clock read, for a day offset and the next one
CallGetTargetUtcMs ==
    /\ \E hhmm \in ValidTimes : \E d \in 0..MaxAddDays :
          fn' = [op |-> "getTargetUtcMs", iftar |-> hhmm, addDays |-> d,
                 out |-> getTargetUtcMs(clock, hhmm, d),
                 outNext |-> getTargetUtcMs(clock, hhmm, d + 1)]
    /\ UNCHANGED <<clock, progVarsButFn>>

\* the remaining-time breakdown of CountdownCard for a target and a now
CallRemaining ==
    /\ \E hhmm \in ValidTimes : \E now \in Instants :
          LET target == getTargetUtcMs(clock, hhmm, 0)
          IN fn' = [op |-> "remaining", target |-> target, now |-> now,
                    out |-> Remaining(target, now)]
    /\ UNCHANGED <<clock, progVarsButFn>>

PureNext == CallGetTargetUtcMs \/ CallRemaining

PureSpec == Init /\ [][PureNext]_vars

----------------------------------------------------------------------------
(* Properties *)

\* the remote read failed: a rejection, an error result, no rows, or a row that
\* is not well-formed
ReadFailed(r) ==
    \/ r.kind \in {"reject", "error", "null"}
    \/ r.kind = "ok" /\ Len(r.data) = 0
    \/ r.kind = "ok" /\ \E k \in 1..Len(r.data) : ~WellFormed(r.data[k])

ReadSucceeded(r) ==
    r.kind = "ok" /\ Len(r.data) > 0 /\ \A k \in 1..Len(r.data) : WellFormed(r.data[k])

\* C1: once the load has ended, if the remote read failed in any way (malformed
\* rows included) the schedule is the built-in fallback list of 8 entries.
C1_FallbackOnAnyFailure ==
    (fetch = "done" /\ ReadFailed(resp)) =>
        (divisions = FALLBACK_DIVISIONS /\ Len(divisions) = 8)

\* C2: the loading flag eventually becomes loaded, once loaded it never returns
\* to loading, and the transition is signalled at most once.
C2_LoadedExactlyOnce ==
    /\ <>(loading = FALSE)
    /\ [][(loading = FALSE => loading' = FALSE)
          /\ (setLoadingCalls' # setLoadingCalls => loading /\ ~loading')]_vars

C2_Witness == loading = FALSE /\ setLoadingCalls = 1 /\ resp.kind = "reject"

\* C3: after a remote read that returned at least one row, all well-formed, the
\* schedule is exactly the rows returned, in their order.
C3_RemoteRowsVerbatim ==
    (fetch = "done" /\ ReadSucceeded(resp)) => divisions = resp.data

C3_Witness == fetch = "done" /\ resp.data = ThreeRows /\ divisions = ThreeRows

\* C4: when a tick re-renders a region that was shown elapsed, the region is
\* not shown pending again unless the local calendar day of the displayed now
\* has advanced.
C4_NoReturnToPendingSameDay ==
    [][\A i \in 1..Len(shown) :
          (i <= Len(shown') /\ divisions' = divisions
           /\ shown'[i].now > shown[i].now
           /\ shown[i].isAfterIftar /\ ~shown'[i].isAfterIftar)
          => BdDay(shown'[i].now) > BdDay(shown[i].now)]_vars

\* C5: in every CountdownCard call the region is elapsed exactly when the
\* displayed now is at or after the today-target; at equality it is elapsed.
C5_InclusiveBoundary ==
    card.calls > 0 =>
        /\ card.isAfterIftar <=>
               (~card.targetTodayUtc.nan /\ card.now >= card.targetTodayUtc.v)
        /\ (~card.targetTodayUtc.nan /\ card.now = card.targetTodayUtc.v)
               => card.isAfterIftar

C5_Witness ==
    /\ card.calls > 0 /\ ~card.targetTodayUtc.nan
    /\ card.now = card.targetTodayUtc.v /\ card.isAfterIftar

C7_RemainingNonNegative ==
    fn.op = "remaining" =>
        /\ ~IsNegative(fn.out.h) /\ ~IsNegative(fn.out.m) /\ ~IsNegative(fn.out.s)
        /\ fn.target.v = fn.now
               => fn.out = [h |-> Num(0), m |-> Num(0), s |-> Num(0)]

C7_Witness == fn.op = "remaining" /\ fn.target.v = fn.now /\ fn.out.h = Num(0)

\* the memoised Ramadan label belongs to the displayed now, which lies on the
\* local day 5 days after the start date
MemoOnDayFive == pc # "memo" /\ BdDay(nowUtcMs) = FirstDay

C9_NoTickAfterTeardown ==
    [][/\ (~mounted => nowUtcMs' = nowUtcMs)
       /\ (~timerActive /\ timerActive' => ~effectRan /\ effectRan')]_vars

C9_Witness == ~mounted /\ ~timerActive /\ ticks < MaxTicks /\ clock >= timerDue

\* C10: in every CountdownCard call with a numeric target, the target is the
\* nearest occurrence strictly after the displayed now: the remaining time is
\* greater than 0 and at most 24 hours.
C10_TargetIsNearestOccurrence ==
    (card.calls > 0 /\ ~card.targetUtc.nan) =>
        /\ card.targetUtc.v - card.now > 0
        /\ card.targetUtc.v - card.now <= 24 * HOUR_MS

====
